---- MODULE Spec2Model ----
(***************************************************************************)
(* Model of the Malayalam text-to-speech bot (src/main.py): the chunker    *)
(* split_text_into_chunks, the progress reporter _safe_edit_message and    *)
(* the single-chunk and multi-chunk conversion jobs.                       *)
(*                                                                         *)
(* A Python str is a sequence of one-character strings; "" is << >>.       *)
(***************************************************************************)
EXTENDS Integers, Sequences, FiniteSets, TLC

VARIABLES
    \* the chunker applied to one input
    text,            \* the text given to split_text_into_chunks
    max_length,      \* its max_length argument
    result,          \* the list it returns
    cpc,             \* "input" before the call, "output" after it
    \* one conversion job
    pc,              \* the statement the job is at
    total_chunks,    \* len(chunks)
    speed,           \* the resolved speed, 1 for 1.0 and 2 for 2.0
    i,               \* the loop index of _convert_multiple_chunks
    temp_files,      \* the list temp_files
    disk,            \* the temporary files that exist in the file system
    audio_segments,  \* the list audio_segments (chunk numbers)
    audio,           \* audio / combined_audio: the clips and the speed factor
    file_size,       \* bytes of the exported .ogg, 0 before the export
    exc,             \* an exception is propagating
    core_failed,     \* a step other than a best-effort messaging call failed
    success,         \* the flag success of _convert_multiple_chunks
    \* the messaging client
    progress,        \* the progress message: "none", "shown" or "deleted"
    displayed,       \* the text the progress message shows
    reports,         \* the texts given to _safe_edit_message, in order
    log,             \* the calls made to the bot and to gTTS, in order
    \* one request (a text message or a document) and its handler
    kind,            \* "text" or "document"
    text_len,        \* len(text) of the message text or of the decoded file
    blank,           \* text.strip() == ''
    n_chunks,        \* the number of chunks split_text_into_chunks makes of the text
    verdict,         \* what the validation found, "none" before it
    user,            \* message.from_user.id
    chunker_calls,   \* the calls of split_text_into_chunks
    jobs,            \* the requests handled so far, this one included
    \* the speed preferences and the /speed handlers on the worker threads
    user_speed_settings,  \* the dict: a user's speed, 0 for a missing key
    tpc,             \* per worker thread: "idle" or "read" (between get and set)
    tuser,           \* per worker thread: the user of its /speed command
    tcur,            \* per worker thread: current_speed as it read it
    toggled          \* per user: the /speed commands completed

chunk_vars == <<text, max_length, result, cpc>>

job_vars == <<pc, total_chunks, speed, i, temp_files, disk, audio_segments,
              audio, file_size, exc, core_failed, success>>

msg_vars == <<progress, displayed, reports, log>>

req_vars == <<kind, text_len, blank, n_chunks, verdict, user, chunker_calls, jobs>>

speed_vars == <<user_speed_settings, tpc, tuser, tcur, toggled>>

vars == <<chunk_vars, job_vars, msg_vars, req_vars, speed_vars>>

(***************************************************************************)
(* Bounds of the chunker inputs.                                           *)
(***************************************************************************)
MaxLen == 5
MaxLimit == 3

\* A letter pair, a blank, the newline (separator and whitespace at once)
\* and the full stop (separator, not whitespace).
Alphabet == {"a", "b", " ", "\n", "."}

\* The character class of re.split(r'([.!?<danda><double danda>\n]+)').
IsSep(c) == c \in {".", "!", "?", "DANDA", "DOUBLE_DANDA", "\n"}

\* The characters str.split() and str.strip() treat as whitespace
\* (str.isspace): the six of ASCII, the separators U+001C..U+001F and the
\* Unicode spaces, each named by its code point.
IsSpace(c) ==
    c \in {" ", "\t", "\n", "\r", "\f", "VT",
           "U+001C", "U+001D", "U+001E", "U+001F", "U+0085", "U+00A0",
           "U+1680", "U+2000", "U+2001", "U+2002", "U+2003", "U+2004",
           "U+2005", "U+2006", "U+2007", "U+2008", "U+2009", "U+200A",
           "U+2028", "U+2029", "U+202F", "U+205F", "U+3000"}

\* re.split with one capturing group: texts between separator runs and the
\* separator runs themselves, alternating, always starting and ending with
\* a (possibly empty) text.
RECURSIVE re_split_from(_, _, _, _, _)
re_split_from(s, pos, cur, inSep, out) ==
    IF pos > Len(s)
    THEN IF inSep THEN out \o <<cur, <<>>>> ELSE Append(out, cur)
    ELSE IF IsSep(s[pos]) = inSep
         THEN re_split_from(s, pos + 1, Append(cur, s[pos]), inSep, out)
         ELSE re_split_from(s, pos + 1, <<s[pos]>>, ~inSep, Append(out, cur))

re_split(s) == re_split_from(s, 1, <<>>, FALSE, <<>>)

\* str.strip()
RECURSIVE lstrip(_)
lstrip(s) == IF s # <<>> /\ IsSpace(Head(s)) THEN lstrip(Tail(s)) ELSE s

RECURSIVE rstrip(_)
rstrip(s) ==
    IF s # <<>> /\ IsSpace(s[Len(s)]) THEN rstrip(SubSeq(s, 1, Len(s) - 1)) ELSE s

strip(s) == rstrip(lstrip(s))

\* str.split(): the maximal runs of non-whitespace characters.
RECURSIVE split_from(_, _, _, _)
split_from(s, pos, cur, out) ==
    IF pos > Len(s)
    THEN IF cur # <<>> THEN Append(out, cur) ELSE out
    ELSE IF IsSpace(s[pos])
         THEN split_from(s, pos + 1, <<>>, IF cur # <<>> THEN Append(out, cur) ELSE out)
         ELSE split_from(s, pos + 1, Append(cur, s[pos]), out)

split(s) == split_from(s, 1, <<>>, <<>>)

\* line 60: the word still fits behind temp_chunk and one blank.
FitsWord_NoBlank(temp_chunk, word, limit) ==
    Len(temp_chunk) + Len(word) <= limit

FitsWord(temp_chunk, word, limit) ==
    Len(temp_chunk) + Len(word) + 1 <= limit

\* line 50: the sentence with its separator still fits behind current_chunk.
FitsSentence(current_chunk, combined, limit) ==
    Len(current_chunk) + Len(combined) <= limit

\* lines 53-54 and 63-64: a non-empty chunk is closed, stripped.
Flush_Drop(chunks, chunk) == chunks

Flush(chunks, chunk) ==
    IF chunk # <<>> THEN Append(chunks, strip(chunk)) ELSE chunks

\* lines 57-66: word-level packing of a sentence longer than the limit.
RECURSIVE pack_words(_, _, _, _, _)
pack_words(words, k, temp_chunk, chunks, limit) ==
    IF k > Len(words)
    THEN [current_chunk |-> temp_chunk, chunks |-> chunks]
    ELSE LET word == words[k] IN
         IF FitsWord(temp_chunk, word, limit)
         THEN pack_words(words, k + 1,
                         temp_chunk \o (IF temp_chunk # <<>> THEN <<" ">> ELSE <<>>) \o word,
                         chunks, limit)
         ELSE pack_words(words, k + 1, word, Flush(chunks, temp_chunk), limit)

\* lines 44-68: the loop over the sentences, pos = 0, 2, 4, ... (here 1, 3, ...).
RECURSIVE sentence_loop(_, _, _, _, _)
sentence_loop(sentences, pos, current_chunk, chunks, limit) ==
    IF pos > Len(sentences)
    THEN [current_chunk |-> current_chunk, chunks |-> chunks]
    ELSE LET sentence  == sentences[pos]
             separator == IF pos + 1 <= Len(sentences) THEN sentences[pos + 1] ELSE <<>>
             combined  == sentence \o separator
         IN  IF FitsSentence(current_chunk, combined, limit)
             THEN sentence_loop(sentences, pos + 2, current_chunk \o combined, chunks, limit)
             ELSE LET flushed == Flush(chunks, current_chunk) IN
                  IF Len(combined) > limit
                  THEN LET p == pack_words(split(combined), 1, <<>>, flushed, limit)
                       IN  sentence_loop(sentences, pos + 2, p.current_chunk, p.chunks, limit)
                  ELSE sentence_loop(sentences, pos + 2, combined, flushed, limit)

\* line 73: the empty chunks are dropped.
NonEmptyOnly(chunks) == SelectSeq(chunks, LAMBDA c : c # <<>>)

\* lines 36-37: the text within the limit is returned as it is.
ShortPath(s) == <<s>>

\* lines 34-73
split_text_into_chunks(s, limit) ==
    IF Len(s) <= limit
    THEN ShortPath(s)
    ELSE LET r == sentence_loop(re_split(s), 1, <<>>, <<>>, limit)
         IN  NonEmptyOnly(Flush(r.chunks, r.current_chunk))

(***************************************************************************)
(* No job: the state of the job and of the messaging client before         *)
(* convert_text_to_speech is entered.                                      *)
(***************************************************************************)
NoText == [kind |-> "none", a |-> 0, b |-> 0]

NoAudio == [clips |-> <<>>, factor |-> 1]

\* The users that send messages, and the worker threads that run the
\* handlers (TeleBot(BOT_TOKEN) of line 22 runs its handlers on two).
Users == {1, 2}

Workers == {1, 2}

\* No request and no /speed command yet.
RequestIdle ==
    /\ kind = "text"
    /\ text_len = 0
    /\ blank = TRUE
    /\ n_chunks = 1
    /\ verdict = "none"
    /\ user = 1
    /\ chunker_calls = 0
    /\ jobs = 0

SpeedIdle ==
    /\ user_speed_settings = [u \in Users |-> 0]      \* line 24
    /\ tpc = [t \in Workers |-> "idle"]
    /\ tuser = [t \in Workers |-> 1]
    /\ tcur = [t \in Workers |-> 1]
    /\ toggled = [u \in Users |-> 0]

\* The locals of a job before the job, and no progress message.
JobFresh ==
    /\ total_chunks = 0
    /\ speed = 1
    /\ i = 0
    /\ temp_files = <<>>
    /\ disk = {}
    /\ audio_segments = <<>>
    /\ audio = NoAudio
    /\ file_size = 0
    /\ exc = FALSE
    /\ core_failed = FALSE
    /\ success = FALSE
    /\ progress = "none"
    /\ displayed = NoText
    /\ reports = <<>>
    /\ log = <<>>

JobIdle ==
    /\ pc = "idle"
    /\ JobFresh
    /\ RequestIdle
    /\ SpeedIdle

(***************************************************************************)
(* The chunker applied to every text over Alphabet of at most MaxLen       *)
(* characters and every limit in 0..MaxLimit.                              *)
(***************************************************************************)
Texts == UNION {[1..n -> Alphabet] : n \in 0..MaxLen}

ChunkInit ==
    /\ text \in Texts
    /\ max_length \in 0..MaxLimit
    /\ result = <<>>
    /\ cpc = "input"
    /\ JobIdle

Chunk ==
    /\ cpc = "input"
    /\ result' = split_text_into_chunks(text, max_length)
    /\ cpc' = "output"
    /\ UNCHANGED <<text, max_length, job_vars, msg_vars, req_vars, speed_vars>>

ChunkNext == Chunk

SpecChunk == ChunkInit /\ [][ChunkNext]_vars

(***************************************************************************)
(* Properties of the chunker, checked under SpecChunk.                     *)
(***************************************************************************)
HasNoSpace(c) == \A j \in 1..Len(c) : ~IsSpace(c[j])

RECURSIVE Flatten(_)
Flatten(ss) == IF ss = <<>> THEN <<>> ELSE Head(ss) \o Flatten(Tail(ss))

WithoutSpace(s) == SelectSeq(s, LAMBDA c : ~IsSpace(c))

\* The words read from the chunks, chunk after chunk.
RECURSIVE WordsOf(_)
WordsOf(ss) == IF ss = <<>> THEN <<>> ELSE split(Head(ss)) \o WordsOf(Tail(ss))

\* C3: every chunk is at most max_length characters long, unless it is one
\* word without whitespace that is itself longer than max_length.
C3_ChunkWithinLimit ==
    cpc = "output" =>
        \A k \in 1..Len(result) :
            \/ Len(result[k]) <= max_length
            \/ result[k] # <<>> /\ HasNoSpace(result[k])

\* A chunk that starts with the leftover of a word-level split ("a" of
\* "a\n\n") and is extended with the next sentence ("b"), within the limit.
C3_Witness ==
    /\ cpc = "output"
    /\ text = <<"a", "\n", "\n", "b">>
    /\ max_length = 2
    /\ result = << <<"a", "b">> >>

\* C4: the words of the chunks, in order, are the words of the text.
C4_WordsPreserved ==
    cpc = "output" => WordsOf(result) = split(text)

\* C5: the chunks, concatenated and with the whitespace removed, are the
\* text with the whitespace removed.
C5_NonSpacePreserved ==
    cpc = "output" => WithoutSpace(Flatten(result)) = WithoutSpace(text)

\* A text longer than the limit, holding whitespace, split in two or more.
C5_Witness ==
    /\ cpc = "output"
    /\ Len(text) > max_length
    /\ Len(result) >= 2
    /\ ~HasNoSpace(text)
    /\ WithoutSpace(text) # <<>>

\* C6: a text within the limit gives one chunk, the trimmed text.
C6_ShortTextTrimmed ==
    (cpc = "output" /\ Len(text) <= max_length) => result = <<strip(text)>>

\* C7: no chunk of the result is the empty string.
C7_NoEmptyChunk ==
    cpc = "output" => \A k \in 1..Len(result) : result[k] # <<>>

(***************************************************************************)
(* The conversion job: convert_text_to_speech and the two paths it         *)
(* dispatches to.  Every call of a collaborator (bot, gTTS, pydub,         *)
(* tempfile) either returns or raises.                                     *)
(***************************************************************************)
MaxChunks == 12

TELEGRAM_MAX_AUDIO_SIZE_MB == 50

\* 1024 * 1024, line 210
BytesPerMB == 1048576

\* The sizes os.path.getsize may report for the exported .ogg: small, at the
\* ceiling, one byte above it, and 60 MB.
Sizes == {BytesPerMB, 50 * BytesPerMB, 50 * BytesPerMB + 1, 60 * BytesPerMB}

Speeds == {1, 2}

\* f"{file_size_mb:.1f}": the size in tenths of a megabyte, rounded half to even.
OneDecimal(bytes) ==
    LET q == (bytes * 10) \div BytesPerMB
        r == (bytes * 10) % BytesPerMB
    IN  IF 2 * r > BytesPerMB \/ (2 * r = BytesPerMB /\ q % 2 = 1) THEN q + 1 ELSE q

\* The texts shown to the user.
Text(knd, a, b) == [kind |-> knd, a |-> a, b |-> b]

ProcessingText(n) == Text("Processing", n, 0)                  \* line 147
ProcessedText(k, n) == Text("Processed", k, n)                 \* line 165
CombiningText == Text("Combining", 0, 0)                       \* line 183
ApplyingText(sp) == Text("Applying", sp, 0)                    \* line 194
ConvertingText == Text("Converting", 0, 0)                     \* line 201
TooLargeText(bytes) ==                                         \* line 217
    Text("TooLarge", OneDecimal(bytes), TELEGRAM_MAX_AUDIO_SIZE_MB)
ErrorText == Text("Error", 0, 0)                               \* lines 242, 247

\* One call of a collaborator and whether it returned (ok) or raised.
Call(op, arg, ok) == [op |-> op, arg |-> arg, ok |-> ok]

Range(f) == {f[k] : k \in DOMAIN f}

Mp3(k) == <<"mp3", k>>
Ogg == <<"ogg", 0>>

\* line 213: file_size_mb > TELEGRAM_MAX_AUDIO_SIZE_MB, with
\* file_size_mb = bytes / (1024 * 1024)
TooLarge_Never(bytes) == FALSE

TooLarge(bytes) == bytes > TELEGRAM_MAX_AUDIO_SIZE_MB * BytesPerMB

\* line 161
ShouldReport_FifthOnly(k, n) == k % 5 = 0

ShouldReport(k, n) == k % 5 = 0 \/ k = n

\* lines 127-130 and 251-254: every file of temp_files that exists is removed.
RemoveTempFiles_NotLast(files, d) ==
    d \ {files[k] : k \in 1..(Len(files) - 1)}

RemoveTempFiles(files, d) == d \ Range(files)

\* lines 132-138, _safe_edit_message: bot.edit_message_text is called and
\* whatever it raises is swallowed.  The edit goes through only on a message
\* that exists and shows another text (Telegram rejects an edit that leaves
\* the message unmodified).
SafeEdit(t) ==
    \E ok \in BOOLEAN :
        /\ ok => (progress = "shown" /\ t # displayed)
        /\ reports' = Append(reports, t)
        /\ log' = Append(log, Call("edit", t, ok))
        /\ displayed' = IF ok THEN t ELSE displayed
        /\ UNCHANGED progress

MAX_CHUNK_LENGTH == 180

MAX_TEXT_LENGTH == 100000

\* The lengths of the texts received: empty, short, the longest accepted,
\* one more, and the 150,000 characters of the spec's scenario.
Lengths == {0, 1, MAX_TEXT_LENGTH, MAX_TEXT_LENGTH + 1, 150000}

\* The numbers of chunks the chunker can make of a text of that length:
\* one of a text within MAX_CHUNK_LENGTH (lines 36-37), none of whitespace
\* beyond it, one or more of any other.
ChunkCounts(len, isBlank, most) ==
    IF len <= MAX_CHUNK_LENGTH THEN {1}
    ELSE IF isBlank THEN {0} ELSE 1..most

\* lines 26-28
get_user_speed(user_id) ==
    IF user_speed_settings[user_id] = 0 THEN 1 ELSE user_speed_settings[user_id]

\* The handler of the first request starts: handle_text_message (line 343)
\* at its check of the text, handle_document (line 301) at the file name.
FirstStep(k) == IF k = "text" THEN "h_empty" ELSE "hd_name"

JobInit ==
    /\ text = <<>>
    /\ max_length = 0
    /\ result = <<>>
    /\ cpc = "idle"
    /\ JobFresh
    /\ user \in Users
    /\ \E v \in {0} \cup Speeds :
          user_speed_settings = [u \in Users |-> IF u = user THEN v ELSE 0]
    /\ tpc = [t \in Workers |-> "idle"]
    /\ tuser = [t \in Workers |-> 1]
    /\ tcur = [t \in Workers |-> 1]
    /\ toggled = [u \in Users |-> 0]
    /\ kind \in {"text", "document"}
    /\ text_len \in Lengths
    /\ blank \in BOOLEAN
    /\ text_len = 0 => blank
    /\ n_chunks \in ChunkCounts(text_len, blank, MaxChunks)
    /\ verdict = "none"
    /\ chunker_calls = 0
    /\ jobs = 1
    /\ pc = FirstStep(kind)

\* line 87: one chunk goes the single-chunk way.
SinglePath_Never(n) == FALSE

SinglePath(n) == n = 1

\* line 78
TooLong_AtLimit(len) == len >= MAX_TEXT_LENGTH

TooLong(len) == len > MAX_TEXT_LENGTH

\* lines 75-90, convert_text_to_speech: a text beyond MAX_TEXT_LENGTH is
\* answered and nothing else is done; otherwise the user's speed is read,
\* the text is chunked and the job goes one of the two ways.
Convert ==
    /\ pc = "convert"
    /\ IF TooLong(text_len)
       THEN \E ok \in BOOLEAN :
              /\ log' = Append(log, Call("send_message",
                                         Text("TooLong", MAX_TEXT_LENGTH, text_len), ok))
              /\ verdict' = "too_long"
              /\ exc' = ~ok
              /\ core_failed' = TRUE
              /\ pc' = IF ok THEN "h_end" ELSE "raised"
              /\ UNCHANGED <<speed, total_chunks, chunker_calls>>
       ELSE /\ speed' = get_user_speed(user)
            /\ log' = Append(log, Call("get_user_speed", Text("speed", get_user_speed(user), 0), TRUE))
            /\ total_chunks' = n_chunks
            /\ chunker_calls' = chunker_calls + 1
            /\ verdict' = "valid"
            /\ pc' = IF SinglePath(n_chunks) THEN "s_chat_action" ELSE "m_send_progress"
            /\ UNCHANGED <<exc, core_failed>>
    /\ UNCHANGED <<chunk_vars, speed_vars, kind, text_len, blank, n_chunks, user, jobs,
                   i, temp_files, disk, audio_segments, audio, file_size, success,
                   progress, displayed, reports>>

----------------------------------------------------------------------------
(* _convert_single_chunk, lines 92-130 *)

\* line 94: outside the try, an exception leaves the function at once.
S_ChatAction ==
    /\ pc = "s_chat_action"
    /\ \E ok \in BOOLEAN :
        /\ pc' = IF ok THEN "s_tmp_mp3" ELSE "raised"
        /\ exc' = ~ok
        /\ UNCHANGED core_failed
    /\ UNCHANGED <<chunk_vars, req_vars, speed_vars, total_chunks, speed, i, temp_files, disk,
                   audio_segments, audio, file_size, success, msg_vars>>

\* lines 98-100
S_TmpMp3 ==
    /\ pc = "s_tmp_mp3"
    /\ \E ok \in BOOLEAN :
        IF ok
        THEN /\ disk' = disk \cup {Mp3(1)}
             /\ temp_files' = Append(temp_files, Mp3(1))
             /\ pc' = "s_synth"
             /\ UNCHANGED <<exc, core_failed>>
        ELSE /\ exc' = TRUE
             /\ core_failed' = TRUE
             /\ pc' = "s_finally"
             /\ UNCHANGED <<disk, temp_files>>
    /\ UNCHANGED <<chunk_vars, req_vars, speed_vars, total_chunks, speed, i, audio_segments, audio,
                   file_size, success, msg_vars>>

\* lines 102-103
S_Synth ==
    /\ pc = "s_synth"
    /\ \E ok \in BOOLEAN :
        /\ log' = Append(log, Call("synth", Text("chunk", 1, total_chunks), ok))
        /\ exc' = ~ok
        /\ core_failed' = (core_failed \/ ~ok)
        /\ pc' = IF ok THEN "s_load" ELSE "s_finally"
    /\ UNCHANGED <<chunk_vars, req_vars, speed_vars, total_chunks, speed, i, temp_files, disk,
                   audio_segments, audio, file_size, success, progress,
                   displayed, reports>>

\* line 105
S_Load ==
    /\ pc = "s_load"
    /\ \E ok \in BOOLEAN :
        IF ok
        THEN /\ audio' = [clips |-> <<1>>, factor |-> 1]
             /\ pc' = "s_speed"
             /\ UNCHANGED <<exc, core_failed>>
        ELSE /\ exc' = TRUE
             /\ core_failed' = TRUE
             /\ pc' = "s_finally"
             /\ UNCHANGED audio
    /\ UNCHANGED <<chunk_vars, req_vars, speed_vars, total_chunks, speed, i, temp_files, disk,
                   audio_segments, file_size, success, msg_vars>>

\* lines 108 and 196, playback_speed=speed: the parameter of the job, read
\* once at line 83.
playback_speed_Reread == get_user_speed(user)

playback_speed == speed

\* lines 107-108
S_Speed ==
    /\ pc = "s_speed"
    /\ IF speed # 1
       THEN \E ok \in BOOLEAN :
              IF ok
              THEN /\ audio' = [audio EXCEPT !.factor = playback_speed]
                   /\ pc' = "s_tmp_ogg"
                   /\ UNCHANGED <<exc, core_failed>>
              ELSE /\ exc' = TRUE
                   /\ core_failed' = TRUE
                   /\ pc' = "s_finally"
                   /\ UNCHANGED audio
       ELSE /\ pc' = "s_tmp_ogg"
            /\ UNCHANGED <<audio, exc, core_failed>>
    /\ UNCHANGED <<chunk_vars, req_vars, speed_vars, total_chunks, speed, i, temp_files, disk,
                   audio_segments, file_size, success, msg_vars>>

\* lines 110-112
S_TmpOgg ==
    /\ pc = "s_tmp_ogg"
    /\ \E ok \in BOOLEAN :
        IF ok
        THEN /\ disk' = disk \cup {Ogg}
             /\ temp_files' = Append(temp_files, Ogg)
             /\ pc' = "s_export"
             /\ UNCHANGED <<exc, core_failed>>
        ELSE /\ exc' = TRUE
             /\ core_failed' = TRUE
             /\ pc' = "s_finally"
             /\ UNCHANGED <<disk, temp_files>>
    /\ UNCHANGED <<chunk_vars, req_vars, speed_vars, total_chunks, speed, i, audio_segments, audio,
                   file_size, success, msg_vars>>

\* line 114
S_Export ==
    /\ pc = "s_export"
    /\ \/ /\ \E size \in Sizes : file_size' = size
          /\ pc' = "s_send"
          /\ UNCHANGED <<exc, core_failed>>
       \/ /\ exc' = TRUE
          /\ core_failed' = TRUE
          /\ pc' = "s_finally"
          /\ UNCHANGED file_size
    /\ UNCHANGED <<chunk_vars, req_vars, speed_vars, total_chunks, speed, i, temp_files, disk,
                   audio_segments, audio, success, msg_vars>>

\* lines 118-122: the voice clip is sent whatever its size.
S_Send ==
    /\ pc = "s_send"
    /\ \E ok \in BOOLEAN :
        /\ log' = Append(log, Call("send_voice", Text("voice", file_size, 0), ok))
        /\ exc' = ~ok
        /\ core_failed' = (core_failed \/ ~ok)
        /\ pc' = "s_finally"
    /\ UNCHANGED <<chunk_vars, req_vars, speed_vars, total_chunks, speed, i, temp_files, disk,
                   audio_segments, audio, file_size, success, progress,
                   displayed, reports>>

\* lines 126-130; a pending exception then leaves the function.
S_Finally ==
    /\ pc = "s_finally"
    /\ disk' = RemoveTempFiles(temp_files, disk)
    /\ pc' = IF exc THEN "raised" ELSE "done"
    /\ UNCHANGED <<chunk_vars, req_vars, speed_vars, total_chunks, speed, i, temp_files,
                   audio_segments, audio, file_size, exc, core_failed, success, msg_vars>>

----------------------------------------------------------------------------
(* _convert_multiple_chunks, lines 140-254 *)

\* lines 145-148: outside the try, an exception leaves the function at once.
M_SendProgress ==
    /\ pc = "m_send_progress"
    /\ \E ok \in BOOLEAN :
        /\ log' = Append(log, Call("send_message", ProcessingText(total_chunks), ok))
        /\ IF ok
           THEN /\ progress' = "shown"
                /\ displayed' = ProcessingText(total_chunks)
                /\ i' = 1
                /\ pc' = "m_chat_action"
                /\ UNCHANGED <<exc, core_failed>>
           ELSE /\ exc' = TRUE
                /\ core_failed' = TRUE
                /\ pc' = "raised"
                /\ UNCHANGED <<progress, displayed, i>>
    /\ UNCHANGED <<chunk_vars, req_vars, speed_vars, total_chunks, speed, temp_files, disk,
                   audio_segments, audio, file_size, success, reports>>

\* lines 156-159: whatever send_chat_action raises is swallowed.
M_ChatAction ==
    /\ pc = "m_chat_action"
    /\ pc' = "m_progress"
    /\ UNCHANGED <<chunk_vars, req_vars, speed_vars, total_chunks, speed, i, temp_files, disk,
                   audio_segments, audio, file_size, exc, core_failed, success, msg_vars>>

\* lines 161-166: the update for chunk i, before chunk i is synthesized.
M_Progress ==
    /\ pc = "m_progress"
    /\ IF ShouldReport(i, total_chunks)
       THEN SafeEdit(ProcessedText(i, total_chunks))
       ELSE UNCHANGED msg_vars
    /\ pc' = "m_tmp_mp3"
    /\ UNCHANGED <<chunk_vars, req_vars, speed_vars, total_chunks, speed, i, temp_files, disk,
                   audio_segments, audio, file_size, exc, core_failed, success>>

\* lines 168-170
M_TmpMp3 ==
    /\ pc = "m_tmp_mp3"
    /\ \E ok \in BOOLEAN :
        IF ok
        THEN /\ disk' = disk \cup {Mp3(i)}
             /\ temp_files' = Append(temp_files, Mp3(i))
             /\ pc' = "m_synth"
             /\ UNCHANGED <<exc, core_failed>>
        ELSE /\ exc' = TRUE
             /\ core_failed' = TRUE
             /\ pc' = "m_except"
             /\ UNCHANGED <<disk, temp_files>>
    /\ UNCHANGED <<chunk_vars, req_vars, speed_vars, total_chunks, speed, i, audio_segments, audio,
                   file_size, success, msg_vars>>

\* lines 172-173 within the try of line 154: an exception of gTTS leaves the
\* loop for the handler of line 236.
AfterSynth_Continue(ok) == "m_load"

AfterSynth(ok) == IF ok THEN "m_load" ELSE "m_except"

\* lines 172-173
M_Synth ==
    /\ pc = "m_synth"
    /\ \E ok \in BOOLEAN :
        /\ log' = Append(log, Call("synth", Text("chunk", i, total_chunks), ok))
        /\ exc' = ~ok
        /\ core_failed' = (core_failed \/ ~ok)
        /\ pc' = AfterSynth(ok)
    /\ UNCHANGED <<chunk_vars, req_vars, speed_vars, total_chunks, speed, i, temp_files, disk,
                   audio_segments, audio, file_size, success, progress,
                   displayed, reports>>

\* the loop goes on with the next chunk, or ends
AfterChunk(k, n) == IF k < n THEN "m_chat_action" ELSE "m_edit_combining"

\* lines 175-176, and line 155 for the next iteration
M_Load ==
    /\ pc = "m_load"
    /\ \E ok \in BOOLEAN :
        IF ok
        THEN /\ audio_segments' = Append(audio_segments, i)
             /\ pc' = AfterChunk(i, total_chunks)
             /\ i' = IF i < total_chunks THEN i + 1 ELSE i
             /\ UNCHANGED <<exc, core_failed>>
        ELSE /\ exc' = TRUE
             /\ core_failed' = TRUE
             /\ pc' = "m_except"
             /\ UNCHANGED <<audio_segments, i>>
    /\ UNCHANGED <<chunk_vars, req_vars, speed_vars, total_chunks, speed, temp_files, disk, audio,
                   file_size, success, msg_vars>>

\* lines 180-184
M_EditCombining ==
    /\ pc = "m_edit_combining"
    /\ SafeEdit(CombiningText)
    /\ pc' = "m_combine"
    /\ UNCHANGED <<chunk_vars, req_vars, speed_vars, total_chunks, speed, i, temp_files, disk,
                   audio_segments, audio, file_size, exc, core_failed, success>>

\* lines 186-188: combined_audio = audio_segments[0], then every further
\* segment is appended to it.  The clip of chunk k is <<k>>.
RECURSIVE AppendSegments(_, _, _)
AppendSegments(combined, segments, k) ==
    IF k > Len(segments) THEN combined
    ELSE AppendSegments(Append(combined, segments[k]), segments, k + 1)

Combined_Prepending(segments) ==
    [k \in 1..Len(segments) |-> segments[Len(segments) + 1 - k]]

Combined(segments) == AppendSegments(<<segments[1]>>, segments, 2)

\* lines 186-188: every addition is a call of pydub that may raise; when
\* the addition of segment k + 1 raises, combined_audio holds the clips of
\* the first k segments.
M_Combine ==
    /\ pc = "m_combine"
    /\ \/ /\ audio' = [clips |-> Combined(audio_segments), factor |-> 1]
          /\ pc' = IF speed # 1 THEN "m_edit_speed" ELSE "m_edit_format"
          /\ UNCHANGED <<exc, core_failed>>
       \/ \E k \in 1..(Len(audio_segments) - 1) :
             /\ audio' = [clips |-> Combined(SubSeq(audio_segments, 1, k)),
                          factor |-> 1]
             /\ exc' = TRUE
             /\ core_failed' = TRUE
             /\ pc' = "m_except"
    /\ UNCHANGED <<chunk_vars, req_vars, speed_vars, total_chunks, speed, i, temp_files, disk,
                   audio_segments, file_size, success, msg_vars>>

\* lines 190-195
M_EditSpeed ==
    /\ pc = "m_edit_speed"
    /\ SafeEdit(ApplyingText(speed))
    /\ pc' = "m_speedup"
    /\ UNCHANGED <<chunk_vars, req_vars, speed_vars, total_chunks, speed, i, temp_files, disk,
                   audio_segments, audio, file_size, exc, core_failed, success>>

\* line 196
M_Speedup ==
    /\ pc = "m_speedup"
    /\ \E ok \in BOOLEAN :
        IF ok
        THEN /\ audio' = [audio EXCEPT !.factor = playback_speed]
             /\ pc' = "m_edit_format"
             /\ UNCHANGED <<exc, core_failed>>
        ELSE /\ exc' = TRUE
             /\ core_failed' = TRUE
             /\ pc' = "m_except"
             /\ UNCHANGED audio
    /\ UNCHANGED <<chunk_vars, req_vars, speed_vars, total_chunks, speed, i, temp_files, disk,
                   audio_segments, file_size, success, msg_vars>>

\* lines 198-202
M_EditFormat ==
    /\ pc = "m_edit_format"
    /\ SafeEdit(ConvertingText)
    /\ pc' = "m_tmp_ogg"
    /\ UNCHANGED <<chunk_vars, req_vars, speed_vars, total_chunks, speed, i, temp_files, disk,
                   audio_segments, audio, file_size, exc, core_failed, success>>

\* lines 204-206
M_TmpOgg ==
    /\ pc = "m_tmp_ogg"
    /\ \E ok \in BOOLEAN :
        IF ok
        THEN /\ disk' = disk \cup {Ogg}
             /\ temp_files' = Append(temp_files, Ogg)
             /\ pc' = "m_export"
             /\ UNCHANGED <<exc, core_failed>>
        ELSE /\ exc' = TRUE
             /\ core_failed' = TRUE
             /\ pc' = "m_except"
             /\ UNCHANGED <<disk, temp_files>>
    /\ UNCHANGED <<chunk_vars, req_vars, speed_vars, total_chunks, speed, i, audio_segments, audio,
                   file_size, success, msg_vars>>

\* lines 208-210
M_Export ==
    /\ pc = "m_export"
    /\ \/ /\ \E size \in Sizes : file_size' = size
          /\ pc' = "m_size_check"
          /\ UNCHANGED <<exc, core_failed>>
       \/ /\ exc' = TRUE
          /\ core_failed' = TRUE
          /\ pc' = "m_except"
          /\ UNCHANGED file_size
    /\ UNCHANGED <<chunk_vars, req_vars, speed_vars, total_chunks, speed, i, temp_files, disk,
                   audio_segments, audio, success, msg_vars>>

\* lines 213-220: too large, the user is told and the function returns.
M_SizeCheck ==
    /\ pc = "m_size_check"
    /\ IF TooLarge(file_size)
       THEN /\ SafeEdit(TooLargeText(file_size))
            /\ core_failed' = TRUE
            /\ pc' = "m_finally"
       ELSE /\ pc' = "m_delete"
            /\ UNCHANGED <<msg_vars, core_failed>>
    /\ UNCHANGED <<chunk_vars, req_vars, speed_vars, total_chunks, speed, i, temp_files, disk,
                   audio_segments, audio, file_size, exc, success>>

\* lines 222-225: whatever delete_message raises is swallowed.
M_Delete ==
    /\ pc = "m_delete"
    /\ \E ok \in BOOLEAN :
        /\ log' = Append(log, Call("delete_message", NoText, ok))
        /\ progress' = IF ok THEN "deleted" ELSE progress
    /\ pc' = "m_send"
    /\ UNCHANGED <<chunk_vars, req_vars, speed_vars, total_chunks, speed, i, temp_files, disk,
                   audio_segments, audio, file_size, exc, core_failed, success, displayed,
                   reports>>

\* lines 227-234
M_Send ==
    /\ pc = "m_send"
    /\ \E ok \in BOOLEAN :
        /\ log' = Append(log, Call("send_voice", Text("voice", file_size, 0), ok))
        /\ exc' = ~ok
        /\ core_failed' = (core_failed \/ ~ok)
        /\ success' = ok
        /\ pc' = IF ok THEN "m_finally" ELSE "m_except"
    /\ UNCHANGED <<chunk_vars, req_vars, speed_vars, total_chunks, speed, i, temp_files, disk,
                   audio_segments, audio, file_size, progress, displayed,
                   reports>>

\* lines 236-248: the exception is caught and the progress message is edited
\* to the failure notice.  _safe_edit_message raises no Exception, so the
\* send_message of lines 245-248 is not reached.
M_Except ==
    /\ pc = "m_except"
    /\ SafeEdit(ErrorText)
    /\ exc' = FALSE
    /\ UNCHANGED core_failed
    /\ pc' = "m_finally"
    /\ UNCHANGED <<chunk_vars, req_vars, speed_vars, total_chunks, speed, i, temp_files, disk,
                   audio_segments, audio, file_size, success>>

\* lines 250-254
M_Finally ==
    /\ pc = "m_finally"
    /\ disk' = RemoveTempFiles(temp_files, disk)
    /\ pc' = IF exc THEN "raised" ELSE "done"
    /\ UNCHANGED <<chunk_vars, req_vars, speed_vars, total_chunks, speed, i, temp_files,
                   audio_segments, audio, file_size, exc, core_failed, success, msg_vars>>

----------------------------------------------------------------------------
(* handle_document, lines 300-340, and handle_text_message, lines 342-357 *)

NotTxtText == Text("NotTxt", 0, 0)                             \* line 306
NoDownloadText == Text("NoDownload", 0, 0)                     \* line 316
EmptyText(k) == Text("Empty", IF k = "text" THEN 0 ELSE 1, 0)  \* lines 348, 331
SorryText(k) == Text("Sorry", IF k = "text" THEN 0 ELSE 1, 0)  \* lines 357, 340

\* bot.reply_to within the try of a handler, followed by return: an
\* exception of reply_to goes to the handler's except clause.
Reject(t, why) ==
    \E ok \in BOOLEAN :
        /\ log' = Append(log, Call("reply_to", t, ok))
        /\ verdict' = why
        /\ exc' = ~ok
        /\ core_failed' = TRUE
        /\ pc' = IF ok THEN "h_end" ELSE "h_except"

\* lines 303-309
HD_Name ==
    /\ pc = "hd_name"
    /\ \/ Reject(NotTxtText, "not_txt")
       \/ /\ pc' = "hd_typing"
          /\ UNCHANGED <<log, verdict, exc, core_failed>>
       \/ /\ exc' = TRUE                   \* file_name is None: line 305 raises
          /\ core_failed' = TRUE
          /\ pc' = "h_except"
          /\ UNCHANGED <<log, verdict>>
    /\ UNCHANGED <<chunk_vars, speed_vars, kind, text_len, blank, n_chunks, user,
                   chunker_calls, jobs, total_chunks, speed, i, temp_files, disk,
                   audio_segments, audio, file_size, success, progress,
                   displayed, reports>>

\* line 311: send_chat_action 'typing' within the try, not guarded by one of
\* its own; an exception goes to the handler's except clause.
HD_Typing ==
    /\ pc = "hd_typing"
    /\ \E ok \in BOOLEAN :
        /\ exc' = ~ok
        /\ pc' = IF ok THEN "hd_get_file" ELSE "h_except"
    /\ UNCHANGED <<chunk_vars, speed_vars, req_vars, total_chunks, speed, i,
                   temp_files, disk, audio_segments, audio, file_size,
                   core_failed, success, msg_vars>>

\* lines 313-317
HD_GetFile ==
    /\ pc = "hd_get_file"
    /\ \/ Reject(NoDownloadText, "no_path")
       \/ /\ pc' = "hd_download"
          /\ UNCHANGED <<log, verdict, exc, core_failed>>
       \/ /\ exc' = TRUE
          /\ core_failed' = TRUE
          /\ pc' = "h_except"
          /\ UNCHANGED <<log, verdict>>
    /\ UNCHANGED <<chunk_vars, speed_vars, kind, text_len, blank, n_chunks, user,
                   chunker_calls, jobs, total_chunks, speed, i, temp_files, disk,
                   audio_segments, audio, file_size, success, progress,
                   displayed, reports>>

\* lines 319-328: the download may raise; the bytes decode as utf-8 or else
\* as latin-1, which decodes any bytes.
HD_Download ==
    /\ pc = "hd_download"
    /\ \E ok \in BOOLEAN :
        /\ exc' = ~ok
        /\ core_failed' = (core_failed \/ ~ok)
        /\ pc' = IF ok THEN "h_empty" ELSE "h_except"
    /\ UNCHANGED <<chunk_vars, speed_vars, req_vars, total_chunks, speed, i,
                   temp_files, disk, audio_segments, audio, file_size,
                   success, msg_vars>>

\* lines 330-336 and 347-353: a text that is empty after strip() is answered,
\* any other is given to convert_text_to_speech.
H_Empty ==
    /\ pc = "h_empty"
    /\ IF blank
       THEN Reject(EmptyText(kind), "empty")
       ELSE /\ pc' = "convert"
            /\ UNCHANGED <<log, verdict, exc, core_failed>>
    /\ UNCHANGED <<chunk_vars, speed_vars, kind, text_len, blank, n_chunks, user,
                   chunker_calls, jobs, total_chunks, speed, i, temp_files, disk,
                   audio_segments, audio, file_size, success, progress,
                   displayed, reports>>

\* convert_text_to_speech has returned and so does the handler.
H_Return ==
    /\ pc = "done"
    /\ pc' = "h_end"
    /\ UNCHANGED <<chunk_vars, speed_vars, req_vars, total_chunks, speed, i,
                   temp_files, disk, audio_segments, audio, file_size, exc,
                   core_failed, success, msg_vars>>

\* lines 338-340 and 355-357: whatever was raised in the handler or below it
\* is answered with the apology.  When this reply raises too, the exception
\* leaves the handler.
H_Except ==
    /\ pc \in {"raised", "h_except"}
    /\ \E ok \in BOOLEAN :
          /\ log' = Append(log, Call("reply_to", SorryText(kind), ok))
          /\ exc' = ~ok
          /\ pc' = IF ok THEN "h_end" ELSE "escaped"
    /\ UNCHANGED <<chunk_vars, speed_vars, req_vars, total_chunks, speed, i,
                   temp_files, disk, audio_segments, audio, file_size,
                   core_failed, success, progress, displayed, reports>>

----------------------------------------------------------------------------
(* toggle_speed, lines 284-298, on worker thread t *)

\* lines 289-294
Flipped_Same(current_speed) == current_speed

Flipped(current_speed) == IF current_speed = 1 THEN 2 ELSE 1

MaxToggles == 3

Sum2(f) == f[1] + f[2]

Toggling == {t \in Workers : tpc[t] = "read"}

\* lines 286-287: the command of user u arrives and its preference is read.
T_Read(t, u) ==
    /\ tpc[t] = "idle"
    /\ Sum2(toggled) + Cardinality(Toggling) < MaxToggles
    /\ tpc' = [tpc EXCEPT ![t] = "read"]
    /\ tuser' = [tuser EXCEPT ![t] = u]
    /\ tcur' = [tcur EXCEPT ![t] = get_user_speed(u)]
    /\ UNCHANGED <<chunk_vars, job_vars, msg_vars, req_vars,
                   user_speed_settings, toggled>>

\* lines 289-298: the other speed is stored (set_user_speed, lines 30-32)
\* and confirmed; the confirmation changes nothing here.
T_Write(t) ==
    /\ tpc[t] = "read"
    /\ user_speed_settings' =
           [user_speed_settings EXCEPT ![tuser[t]] = Flipped(tcur[t])]
    /\ toggled' = [toggled EXCEPT ![tuser[t]] = @ + 1]
    /\ tpc' = [tpc EXCEPT ![t] = "idle"]
    /\ UNCHANGED <<chunk_vars, job_vars, msg_vars, req_vars, tuser, tcur>>

----------------------------------------------------------------------------
SingleNext ==
    \/ S_ChatAction \/ S_TmpMp3 \/ S_Synth \/ S_Load \/ S_Speed
    \/ S_TmpOgg \/ S_Export \/ S_Send \/ S_Finally

MultiNext ==
    \/ M_SendProgress \/ M_ChatAction \/ M_Progress \/ M_TmpMp3 \/ M_Synth
    \/ M_Load \/ M_EditCombining \/ M_Combine \/ M_EditSpeed \/ M_Speedup
    \/ M_EditFormat \/ M_TmpOgg \/ M_Export \/ M_SizeCheck \/ M_Delete
    \/ M_Send \/ M_Except \/ M_Finally

HandlerNext ==
    \/ HD_Name \/ HD_Typing \/ HD_GetFile \/ HD_Download \/ H_Empty
    \/ H_Return \/ H_Except

Next == Convert \/ SingleNext \/ MultiNext \/ HandlerNext

Spec == JobInit /\ [][Next]_vars

(***************************************************************************)
(* The /speed handler on both worker threads, and nothing else.            *)
(***************************************************************************)
SpeedInit ==
    /\ text = <<>>
    /\ max_length = 0
    /\ result = <<>>
    /\ cpc = "idle"
    /\ JobIdle

ToggleRead == \E t \in Workers, u \in Users : T_Read(t, u)

ToggleWrite == \E t \in Workers : T_Write(t)

SpeedNext == ToggleRead \/ ToggleWrite

SpecSpeed == SpeedInit /\ [][SpeedNext]_vars

(***************************************************************************)
(* Requests one after the other on worker 1 while worker 2 handles /speed  *)
(* commands.                                                               *)
(***************************************************************************)
MaxJobs == 2

MaxJobChunks == 2

JobWorker == 1

\* The next message of a user is taken by the worker that has finished.
NewRequest ==
    /\ pc \in {"h_end", "escaped"}
    /\ jobs < MaxJobs
    /\ jobs' = jobs + 1
    /\ user' \in Users
    /\ kind' \in {"text", "document"}
    /\ text_len' \in Lengths
    /\ blank' \in BOOLEAN
    /\ text_len' = 0 => blank'
    /\ n_chunks' \in ChunkCounts(text_len', blank', MaxJobChunks)
    /\ verdict' = "none"
    /\ chunker_calls' = 0
    /\ pc' = FirstStep(kind')
    /\ total_chunks' = 0
    /\ speed' = 1
    /\ i' = 0
    /\ temp_files' = <<>>
    /\ disk' = {}
    /\ audio_segments' = <<>>
    /\ audio' = NoAudio
    /\ file_size' = 0
    /\ exc' = FALSE
    /\ core_failed' = FALSE
    /\ success' = FALSE
    /\ progress' = "none"
    /\ displayed' = NoText
    /\ reports' = <<>>
    /\ log' = <<>>
    /\ UNCHANGED <<chunk_vars, speed_vars>>

JobsInit ==
    /\ text = <<>>
    /\ max_length = 0
    /\ result = <<>>
    /\ cpc = "idle"
    /\ JobFresh
    /\ SpeedIdle
    /\ user \in Users
    /\ kind \in {"text", "document"}
    /\ text_len \in Lengths
    /\ blank \in BOOLEAN
    /\ text_len = 0 => blank
    /\ n_chunks \in ChunkCounts(text_len, blank, MaxJobChunks)
    /\ verdict = "none"
    /\ chunker_calls = 0
    /\ jobs = 1
    /\ pc = FirstStep(kind)

SpeedCommandRead == \E t \in Workers \ {JobWorker}, u \in Users : T_Read(t, u)

SpeedCommandWrite == \E t \in Workers \ {JobWorker} : T_Write(t)

JobsNext ==
    \/ Convert \/ SingleNext \/ MultiNext \/ HandlerNext
    \/ NewRequest \/ SpeedCommandRead \/ SpeedCommandWrite

SpecJobs == JobsInit /\ [][JobsNext]_vars

(***************************************************************************)
(* The progress reporter on its own: _safe_edit_message called with any    *)
(* sequence of texts on a progress message that is shown.                  *)
(***************************************************************************)
MaxReports == 3

ReportTexts == {CombiningText, ConvertingText, ErrorText}

ReporterInit ==
    /\ text = <<>>
    /\ max_length = 0
    /\ result = <<>>
    /\ cpc = "idle"
    /\ pc = "report"
    /\ total_chunks = 2
    /\ speed = 1
    /\ i = 0
    /\ temp_files = <<>>
    /\ disk = {}
    /\ audio_segments = <<>>
    /\ audio = NoAudio
    /\ file_size = 0
    /\ exc = FALSE
    /\ core_failed = FALSE
    /\ success = FALSE
    /\ progress = "shown"
    /\ displayed = ProcessingText(total_chunks)
    /\ reports = <<>>
    /\ log = <<>>
    /\ RequestIdle
    /\ SpeedIdle

Report ==
    /\ pc = "report"
    /\ Len(reports) < MaxReports
    /\ \E t \in ReportTexts : SafeEdit(t)
    /\ UNCHANGED <<chunk_vars, req_vars, speed_vars, job_vars>>

ReporterNext == Report

SpecReporter == ReporterInit /\ [][ReporterNext]_vars

(***************************************************************************)
(* Properties of the job, checked under Spec, and of the reporter, checked *)
(* under SpecReporter.                                                     *)
(***************************************************************************)
Terminated == pc \in {"done", "raised"}

IsOp(op) == {p \in 1..Len(log) : log[p].op = op}

MaxBytes == TELEGRAM_MAX_AUDIO_SIZE_MB * BytesPerMB

\* C1: when the job has terminated, normally or with an exception, none of
\* the temporary files it created exists.
C1_TempFilesRemoved ==
    Terminated => disk = {}

\* A multi-chunk job whose export failed: every .mp3 and the .ogg had been
\* created, nothing was measured, and the files are gone.
C1_Witness ==
    /\ pc = "done"
    /\ total_chunks >= 2
    /\ Len(temp_files) = total_chunks + 1
    /\ file_size = 0
    /\ ~success
    /\ disk = {}

\* C2: no voice clip above the ceiling is sent; a job whose clip measured
\* above the ceiling ends without a delivery call and with the report of the
\* measured size and the limit.
C2_NoOversizeDelivery ==
    /\ \A p \in IsOp("send_voice") : log[p].arg.a <= MaxBytes
    /\ (Terminated /\ file_size > MaxBytes) =>
          /\ IsOp("send_voice") = {}
          /\ \E p \in IsOp("edit") : log[p].arg = TooLargeText(file_size)

\* The chunk numbers of the "Processed k/N" updates, in the order issued.
ProcessedUpdates ==
    LET upd == SelectSeq(log, LAMBDA c : c.op = "edit" /\ c.arg.kind = "Processed")
    IN  [p \in 1..Len(upd) |-> upd[p].arg.a]

\* The chunk numbers k <= n with k mod 5 = 0 or k = N, increasing.
RECURSIVE DueUpdates(_, _)
DueUpdates(n, N) ==
    IF n = 0 THEN <<>>
    ELSE IF n % 5 = 0 \/ n = N THEN Append(DueUpdates(n - 1, N), n)
         ELSE DueUpdates(n - 1, N)

\* C8: once every chunk of a multi-chunk job is synthesized, the per-chunk
\* updates issued are those of the chunks k with k mod 5 = 0 or k = N, once
\* each, in increasing order.
C8_ProgressCadence ==
    (total_chunks >= 2 /\ Len(audio_segments) = total_chunks) =>
        ProcessedUpdates = DueUpdates(total_chunks, total_chunks)

\* Twelve chunks, delivered: the updates were 5, 10, 12.
C8_Witness ==
    /\ pc = "done"
    /\ total_chunks = 12
    /\ success
    /\ ProcessedUpdates = <<5, 10, 12>>

\* C9: the edit calls are as many as the reports that differ from the report
\* before them: a report of the text reported last makes no edit call.
C9_RepeatedReportNoEdit ==
    Cardinality(IsOp("edit")) =
        Cardinality({p \in 1..Len(reports) : p = 1 \/ reports[p] # reports[p - 1]})

\* C10: after a failed synthesis in a multi-chunk job nothing more is
\* synthesized, no voice clip is sent and the progress message is not
\* deleted; the job goes to the handler, whose call is the edit of the
\* progress message to the failure notice, shown when the edit goes through.
C10_AbortOnSynthesisFailure ==
    \A p \in IsOp("synth") :
        (total_chunks >= 2 /\ ~log[p].ok) =>
            /\ \A q \in (p + 1)..Len(log) : log[q].op = "edit"
            /\ IsOp("send_voice") = {}
            /\ IsOp("delete_message") = {}
            /\ progress = "shown"
            /\ pc \in {"m_except", "m_finally", "done", "h_end"}
            /\ pc \in {"m_finally", "done", "h_end"} =>
                  /\ p + 1 = Len(log)
                  /\ log[Len(log)].arg = ErrorText
                  /\ log[Len(log)].ok => displayed = ErrorText
                  /\ ~exc

\* The third of seven chunks failed and the job has ended.
C10_Witness ==
    /\ pc = "done"
    /\ total_chunks = 7
    /\ \E p \in IsOp("synth") : log[p].arg.a = 3 /\ ~log[p].ok
    /\ displayed = ErrorText
    /\ disk = {}

(***************************************************************************)
(* Properties of the handlers and of the stages of a job, under Spec.      *)
(***************************************************************************)
Finished == pc = "h_end"

\* The messages that reached the user: the positions of the send_message
\* and reply_to calls that returned.
MessagesSent ==
    {p \in 1..Len(log) : log[p].op \in {"send_message", "reply_to"} /\ log[p].ok}

Delivered == \E p \in IsOp("send_voice") : log[p].ok

\* The calls that send a message, delivered or not.
MessageCalls ==
    {p \in 1..Len(log) : log[p].op \in {"send_message", "reply_to"}}

\* C11: a request rejected for its length, its file name or its empty text
\* has not reached the chunker, gTTS, a temporary file or a progress message;
\* at most one message reaches the user, exactly one when the handler
\* returns, and when the rejection itself is delivered it is the only message
\* call made; no text of MAX_TEXT_LENGTH characters or fewer is rejected for
\* its length.
C11_RejectedRequestOnlyAnswered ==
    /\ verdict \in {"too_long", "not_txt", "empty"} =>
          /\ chunker_calls = 0
          /\ IsOp("synth") = {} /\ IsOp("send_voice") = {}
          /\ IsOp("edit") = {} /\ IsOp("delete_message") = {}
          /\ temp_files = <<>> /\ disk = {}
          /\ progress = "none"
          /\ Cardinality(MessagesSent) <= 1
          /\ Finished => Cardinality(MessagesSent) = 1
          /\ \A p \in MessagesSent :
                log[p].arg.kind # "Sorry" => MessageCalls = {p}
    /\ verdict = "too_long" => text_len > MAX_TEXT_LENGTH
    /\ verdict = "empty" => blank
    /\ (verdict = "valid" /\ text_len = MAX_TEXT_LENGTH) => chunker_calls = 1

\* The 150,000 characters of a text message, answered once.
C11_Witness ==
    /\ Finished
    /\ verdict = "too_long"
    /\ text_len = 150000
    /\ log = <<Call("send_message", Text("TooLong", MAX_TEXT_LENGTH, 150000), TRUE)>>

\* C12: a request with a text to convert whose handler has ended without a
\* failure of anything but best-effort messaging calls has its voice clip
\* delivered.
C12_BestEffortFailureHarmless ==
    (Finished /\ ~blank /\ text_len <= MAX_TEXT_LENGTH
       /\ verdict \in {"none", "valid"} /\ ~core_failed) => Delivered

\* The chunk numbers of the synthesis calls, in the order made.
SynthCalls ==
    LET c == SelectSeq(log, LAMBDA e : e.op = "synth")
    IN  [p \in 1..Len(c) |-> c[p].arg.a]

UpTo(n) == [k \in 1..n |-> k]

\* The concatenation of lines 186-188 has run to its end.
Assembled ==
    /\ total_chunks >= 2
    /\ \/ pc \in {"m_edit_speed", "m_speedup", "m_edit_format", "m_tmp_ogg",
                  "m_export", "m_size_check", "m_delete", "m_send"}
       \/ file_size # 0
       \/ audio.factor # 1

\* C15: the chunks are synthesized in chunk order, one call each, none after
\* a failed one; the clips collected are those of the chunks synthesized, in
\* that order; the clip under assembly holds the clips of chunks 1..k in
\* order, and the assembled clip those of chunks 1..N.
C15_ChunkOrderKept ==
    /\ SynthCalls = UpTo(Len(SynthCalls))
    /\ \A p \in IsOp("synth") : ~log[p].ok => p = Len(log) \/ log[p + 1].op # "synth"
    /\ audio_segments = UpTo(Len(audio_segments))
    /\ Len(audio_segments) <= Len(SynthCalls)
    /\ audio.clips = UpTo(Len(audio.clips))
    /\ total_chunks >= 2 => Len(audio.clips) <= Len(audio_segments)
    /\ Assembled => audio.clips = UpTo(total_chunks)

\* Three chunks assembled and delivered.
C15_Witness ==
    /\ Finished
    /\ total_chunks = 3
    /\ Delivered
    /\ audio.clips = <<1, 2, 3>>
    /\ SynthCalls = <<1, 2, 3>>

\* C16: on the multi-chunk path the speed factor is on a clip only when the
\* clip is the whole concatenation and the speed is not 1.0; a size is
\* measured only of the clip with the speed applied; a voice clip is sent
\* only with a measured size that is not above the ceiling.
C16_StagesInOrder ==
    total_chunks >= 2 =>
        /\ audio.factor # 1 => (speed # 1 /\ audio.clips = UpTo(total_chunks))
        /\ file_size # 0 => (audio.clips = UpTo(total_chunks) /\ audio.factor = speed)
        /\ \A p \in IsOp("send_voice") :
              /\ file_size # 0
              /\ log[p].arg.a = file_size
              /\ file_size <= MaxBytes
              /\ \A q \in IsOp("edit") : log[q].arg.kind # "Error" => q < p

\* A multi-chunk job at 2x whose clip measured exactly the ceiling: sent.
C16_Witness ==
    /\ Finished
    /\ total_chunks >= 2
    /\ speed = 2
    /\ audio.factor = 2
    /\ file_size = MaxBytes
    /\ Delivered

\* C17: a job of one chunk makes at most one synthesis call, exactly one once
\* it is past the synthesis, and at most one delivery call, and has no
\* progress message created, edited or deleted; a progress message exists
\* only in a job of more than one chunk.
ProgressCalls ==
    {p \in 1..Len(log) :
        \/ log[p].op \in {"edit", "delete_message"}
        \/ log[p].op = "send_message" /\ log[p].arg.kind = "Processing"}

C17_SingleChunkDirect ==
    /\ (verdict = "valid" /\ n_chunks = 1) =>
          /\ Cardinality(IsOp("synth")) <= 1
          /\ (temp_files # <<>> /\ pc # "s_synth") => Cardinality(IsOp("synth")) = 1
          /\ Cardinality(IsOp("send_voice")) <= 1
          /\ ProgressCalls = {}
          /\ progress = "none"
    /\ (progress # "none" \/ ProgressCalls # {}) => total_chunks > 1

\* A short text: one synthesis, one delivery, two calls besides the reading
\* of the speed.
C17_Witness ==
    /\ Finished
    /\ n_chunks = 1
    /\ text_len = 1
    /\ Delivered
    /\ Cardinality(IsOp("synth")) = 1
    /\ Len(log) = 3

\* C18: before every "Processed k/N" update the synthesis of chunk k has
\* been called and has returned.
C18_UpdateAfterSynthesis ==
    \A p \in IsOp("edit") :
        log[p].arg.kind = "Processed" =>
            \E q \in 1..(p - 1) :
                log[q].op = "synth" /\ log[q].arg.a = log[p].arg.a /\ log[q].ok

\* C19: when the handler of a conversion job has returned and no voice clip was
\* delivered, a message telling of the failure has reached the user, or the
\* progress message exists and shows a failure text.
FailureNotice ==
    \/ \E p \in MessagesSent : log[p].arg.kind \in {"Sorry", "TooLong"}
    \/ progress = "shown" /\ displayed.kind \in {"Error", "TooLarge"}

C19_FailureAlwaysNotified ==
    (Finished /\ verdict = "valid" /\ ~Delivered) => FailureNotice

(***************************************************************************)
(* Properties of the speed preference, under SpecJobs and SpecSpeed.       *)
(***************************************************************************)
\* C13: the speed of a job is the stored preference of its user at the one
\* reading when the job starts; no later step of the job, and no /speed
\* command handled meanwhile, changes it, and the factor put on the clip is
\* that speed; the reading of the next job sees what was stored since.
C13_SpeedReadAtStart ==
    [][/\ (pc = "convert" /\ verdict' = "valid") =>
              speed' = get_user_speed(user)
       /\ (pc # "convert" /\ jobs' = jobs) => speed' = speed
       /\ (pc \in {"s_speed", "m_speedup"}
             /\ pc' \in {"s_tmp_ogg", "m_edit_format"}) => audio'.factor = speed
       /\ (pc \notin {"s_speed", "m_speedup"} /\ jobs' = jobs) =>
              audio'.factor = audio.factor
       /\ Cardinality({p \in 1..Len(log') : log'[p].op = "get_user_speed"}) <= 1
      ]_vars

\* The second job of a user who sent /speed before it and again while it
\* ran: delivered at 2x, with normal speed stored by then.
C13_Witness ==
    /\ Finished
    /\ jobs = 2
    /\ Delivered
    /\ speed = 2
    /\ audio.factor = 2
    /\ toggled[user] = 2
    /\ get_user_speed(user) = 1

\* C14: the stored preference of every user is unset, 1.0 or 2.0, and reads
\* as 2.0 after an odd number of completed /speed commands of that user and
\* as 1.0 after an even number.
C14_ToggleParity ==
    \A u \in Users :
        /\ user_speed_settings[u] \in {0} \cup Speeds
        /\ get_user_speed(u) = IF toggled[u] % 2 = 1 THEN 2 ELSE 1

====
